---- MODULE Spec2Model ----
(***************************************************************************)
(* Interview Analyzer: the transcript scorer analyze_text and the two      *)
(* endpoints that call it (backend/server.py).                             *)
(*                                                                         *)
(* A Python str is a sequence of characters; a character is a one-letter   *)
(* string.  Two non-ASCII letters are written by name: "sharp_s" is        *)
(* U+00DF and "dotless_i" is U+0131.  Scores are held in tenths            *)
(* (5.0 is 50): every term the code adds is a multiple of 0.1, so the      *)
(* value round(x, 1) returns is the exact sum in tenths.                   *)
(***************************************************************************)
EXTENDS Integers, Sequences, FiniteSets, TLC

Min(a, b) == IF a <= b THEN a ELSE b
Max(a, b) == IF a >= b THEN a ELSE b

(***************************************************************************)
(* str.lower, str.upper, str.isspace                                       *)
(***************************************************************************)
UpperLetters ==
  <<"A","B","C","D","E","F","G","H","I","J","K","L","M",
    "N","O","P","Q","R","S","T","U","V","W","X","Y","Z">>
LowerLetters ==
  <<"a","b","c","d","e","f","g","h","i","j","k","l","m",
    "n","o","p","q","r","s","t","u","v","w","x","y","z">>

Range(f) == {f[i] : i \in DOMAIN f}

AsciiChars == Range(UpperLetters) \cup Range(LowerLetters) \cup {" ", "\n", ".", ","}

\* the characters of the model: ASCII letters, white space and punctuation,
\* and two letters whose upper case does not lower back to them
Alphabet == AsciiChars \cup {"sharp_s", "dotless_i"}

IndexOf(seq, c) == CHOOSE i \in DOMAIN seq : seq[i] = c

\* str.lower on one character: A-Z map to a-z, every other character of the
\* alphabet (U+00DF and U+0131 included) is its own lower case.
LowerChar ==
  [c \in Alphabet |->
     IF c \in Range(UpperLetters) THEN LowerLetters[IndexOf(UpperLetters, c)] ELSE c]

\* str.upper on one character: a-z map to A-Z, U+00DF to "SS", U+0131 to "I".
UpperChar ==
  [c \in Alphabet |->
     IF c \in Range(LowerLetters) THEN <<UpperLetters[IndexOf(LowerLetters, c)]>>
     ELSE IF c = "sharp_s" THEN <<"S", "S">>
     ELSE IF c = "dotless_i" THEN <<"I">>
     ELSE <<c>>]

\* the concatenation of ss[lo..hi], by halving
RECURSIVE Flatten(_, _, _)
Flatten(ss, lo, hi) ==
  IF lo > hi THEN <<>>
  ELSE IF lo = hi THEN ss[lo]
  ELSE LET m == (lo + hi) \div 2
       IN Flatten(ss, lo, m) \o Flatten(ss, m + 1, hi)

Lower(s) == <<>> \o [i \in 1..Len(s) |-> LowerChar[s[i]]]

Upper(s) == Flatten([i \in 1..Len(s) |-> UpperChar[s[i]]], 1, Len(s))

IsSpace(c) == c \in {" ", "\n"}

(***************************************************************************)
(* str.split(), str.split('.'), str.strip(), `in`, str.count               *)
(***************************************************************************)
\* index of the first white-space character at or after i, Len(s) + 1 when
\* there is none
NextSpace(s, i) ==
  IF \E j \in i..Len(s) : IsSpace(s[j])
  THEN CHOOSE j \in i..Len(s) : IsSpace(s[j]) /\ \A k \in i..(j-1) : ~IsSpace(s[k])
  ELSE Len(s) + 1

\* a token of s.split() starts at i
TokenStart(s, i) == ~IsSpace(s[i]) /\ (i = 1 \/ IsSpace(s[i-1]))

\* the tokens that start in lo..hi, in order (the scan is done by halving the
\* range, which keeps the evaluation shallow)
RECURSIVE SplitRange(_, _, _)
SplitRange(s, lo, hi) ==
  IF lo > hi THEN <<>>
  ELSE IF lo = hi
       THEN (IF TokenStart(s, lo) THEN <<SubSeq(s, lo, NextSpace(s, lo) - 1)>> ELSE <<>>)
  ELSE LET m == (lo + hi) \div 2
       IN SplitRange(s, lo, m) \o SplitRange(s, m + 1, hi)

\* s.split(): the maximal runs of non-white-space characters, in order
Split(s) == SplitRange(s, 1, Len(s))

NextSep(s, sep, i) ==
  IF \E j \in i..Len(s) : s[j] = sep
  THEN CHOOSE j \in i..Len(s) : s[j] = sep /\ \A k \in i..(j-1) : s[k] # sep
  ELSE Len(s) + 1

\* the segments of s.split(sep) that start in lo..hi, in order: a segment
\* starts at 1 and after every separator, the end of the string included
RECURSIVE SplitOnRange(_, _, _, _)
SplitOnRange(s, sep, lo, hi) ==
  IF lo > hi THEN <<>>
  ELSE IF lo = hi
       THEN (IF lo = 1 \/ s[lo-1] = sep
             THEN <<SubSeq(s, lo, NextSep(s, sep, lo) - 1)>> ELSE <<>>)
  ELSE LET m == (lo + hi) \div 2
       IN SplitOnRange(s, sep, lo, m) \o SplitOnRange(s, sep, m + 1, hi)

\* s.split(sep) for a one-character separator: empty segments are kept
SplitOn(s, sep) == SplitOnRange(s, sep, 1, Len(s) + 1)

\* truth value of s.strip(): some character of s is not white space
StripNonEmpty(s) == \E i \in 1..Len(s) : ~IsSpace(s[i])

\* s[i : i + len(p)] == p
MatchAt(s, p, i) ==
  i + Len(p) - 1 <= Len(s) /\ \A j \in 1..Len(p) : s[i + j - 1] = p[j]

\* p in s
Contains(s, p) == \E i \in 1..(Len(s) - Len(p) + 1) : MatchAt(s, p, i)

\* the left-to-right scan of s.count(p) over the positions lo..hi, entered
\* with `free` the first position the previous match leaves free:
\* <<matches counted, first free position afterwards>>
RECURSIVE CountRange(_, _, _, _, _)
CountRange(s, p, lo, hi, free) ==
  IF lo > hi THEN <<0, free>>
  ELSE IF lo = hi
       THEN (IF lo >= free /\ MatchAt(s, p, lo) THEN <<1, lo + Len(p)>> ELSE <<0, free>>)
  ELSE LET m == (lo + hi) \div 2
           l == CountRange(s, p, lo, m, free)
           r == CountRange(s, p, m + 1, hi, l[2])
       IN <<l[1] + r[1], r[2]>>

\* s.count(p): the non-overlapping occurrences of p, scanning left to right
Count(s, p) == CountRange(s, p, 1, Len(s), 1)[1]

(***************************************************************************)
(* analyze_text(transcript, question); the operators below write t for the *)
(* transcript and q for the question                                       *)
(***************************************************************************)
confident_words ==
  <<<<"c","o","n","f","i","d","e","n","t">>,
    <<"d","e","f","i","n","i","t","e","l","y">>,
    <<"c","e","r","t","a","i","n","l","y">>,
    <<"a","b","s","o","l","u","t","e","l","y">>,
    <<"e","x","p","e","r","i","e","n","c","e","d">>>>

hedging_words ==
  <<<<"m","a","y","b","e">>,
    <<"p","e","r","h","a","p","s">>,
    <<"m","i","g","h","t">>,
    <<"p","o","s","s","i","b","l","y">>,
    <<"k","i","n","d"," ","o","f">>,
    <<"s","o","r","t"," ","o","f">>>>

structure_words ==
  <<<<"f","i","r","s","t">>,
    <<"s","e","c","o","n","d">>,
    <<"t","h","i","r","d">>,
    <<"f","i","n","a","l","l","y">>,
    <<"a","d","d","i","t","i","o","n","a","l","l","y">>,
    <<"f","u","r","t","h","e","r","m","o","r","e">>>>

example_indicators ==
  <<<<"e","x","a","m","p","l","e">>,
    <<"i","n","s","t","a","n","c","e">>,
    <<"e","x","p","e","r","i","e","n","c","e">>,
    <<"p","r","o","j","e","c","t">>,
    <<"t","i","m","e"," ","w","h","e","n">>,
    <<"s","i","t","u","a","t","i","o","n">>>>

common_words ==
  {<<"a">>,
   <<"a","n">>,
   <<"t","h","e">>,
   <<"i","s">>,
   <<"a","r","e">>,
   <<"w","a","s">>,
   <<"w","e","r","e">>,
   <<"i","n">>,
   <<"o","n">>,
   <<"a","t">>,
   <<"t","o">>,
   <<"f","o","r">>}

star_words ==
  {<<"s","i","t","u","a","t","i","o","n">>,
   <<"t","a","s","k">>,
   <<"a","c","t","i","o","n">>,
   <<"r","e","s","u","l","t">>}

um == <<"u","m">>
uh == <<"u","h">>
like == <<"l","i","k","e">>

TipAssertive == "Use more assertive language and reduce hedging words (maybe, possibly, etc.)"
PraiseConfidence == "Great confidence in your delivery!"
TipFillers == "Reduce filler words (um, uh, like) for better clarity"
TipShorten == "Try breaking down long sentences into shorter ones for better clarity"
TipExpand == "Consider expanding your sentences with more details"
TipTransitions == "Use transitional phrases (first, second, additionally) to structure your response"
TipRelevance == "Focus more on directly answering the q asked"
TipDetail == "Provide more detailed responses with specific examples"
TipConcise == "Keep responses more concise and focused"
TipStar == "Consider using the STAR method: Situation, Task, Action, Result"
DefaultPraise == "Excellent response! Keep up the good work."

\* sum(1 for word in ws if word in text)
MemberCount(ws, text) == Cardinality({i \in DOMAIN ws : Contains(text, ws[i])})

word_count(t) == Len(Split(t))

\* sentence_count with `if s` in place of `if s.strip()`
sentence_count_unstripped(t) ==
  Cardinality({i \in DOMAIN SplitOn(t, ".") : SplitOn(t, ".")[i] # <<>>})

\* len([s for s in segs if s.strip()])
Stripped(segs) == Cardinality({i \in DOMAIN segs : StripNonEmpty(segs[i])})

sentence_count(t) == Stripped(SplitOn(t, "."))

\* confidence_count without the .lower()
confidence_count_cased(t) == MemberCount(confident_words, t)

confidence_count(t) == MemberCount(confident_words, Lower(t))

hedging_count(t) == MemberCount(hedging_words, Lower(t))

\* LengthAdjustment with the short-answer test turned round (word_count > 30)
LengthAdjustmentFlipped(wc) ==
  IF 50 <= wc /\ wc <= 150 THEN 20
  ELSE IF wc > 30 THEN -10
  ELSE 0

\* LengthAdjustment with the bonus range taken without its end points
LengthAdjustmentStrict(wc) ==
  IF 50 < wc /\ wc < 150 THEN 20
  ELSE IF wc < 30 THEN -10
  ELSE 0

\* the length adjustment of the confidence score, in tenths
LengthAdjustment(wc) ==
  IF 50 <= wc /\ wc <= 150 THEN 20
  ELSE IF wc < 30 THEN -10
  ELSE 0

\* avg_words_per_sentence = word_count / max(sentence_count, 1), compared
\* with a whole number: lo <= avg, avg <= hi
AvgAtLeast(wc, sc, lo) == lo * Max(sc, 1) <= wc
AvgAtMost(wc, sc, hi) == wc <= hi * Max(sc, 1)

\* the sentence-length bonus of the clarity score, in tenths
SentenceBonus(wc, sc) ==
  IF AvgAtLeast(wc, sc, 12) /\ AvgAtMost(wc, sc, 22) THEN 20 ELSE 0

fillers(t) ==
  Count(Lower(t), um) + Count(Lower(t), uh)
    + Count(Lower(t), like)

\* FillerPenalty with 0.5 a filler
FillerPenaltyHalf(n) == Min(n * 5, 30)

\* FillerPenalty without its cap
FillerPenaltyUncapped(n) == n * 3

\* min(fillers * 0.3, 3), in tenths
FillerPenalty(n) == Min(n * 3, 30)

structure_count(t) == MemberCount(structure_words, Lower(t))

\* min(structure_count * 0.5, 2), in tenths
StructureBonus(n) == Min(n * 5, 20)

question_words(q) == Range(Split(Lower(q))) \ common_words

transcript_words(t) == Range(Split(Lower(t)))

overlap(t, q) ==
  Cardinality(question_words(q) \cap transcript_words(t))

\* min(overlap * 0.7, 3), in tenths
OverlapBonus(n) == Min(n * 7, 30)

\* any(w in text for w in ws)
AnyOf(ws, text) == \E w \in Range(ws) : Contains(text, w)

HasExample(t) == AnyOf(example_indicators, Lower(t))

HasStar(t) == \E w \in star_words : Contains(Lower(t), w)

\* min(max(x, 0), 10), in tenths
Clamp(x) == Min(Max(x, 0), 100)

\* the scores before the clamps, in tenths, from the counts
RawConfidence(cc, hc, wc) == 50 + cc * 5 - hc * 5 + LengthAdjustment(wc)

RawClarity(wc, sc, nf, ns) ==
  50 + SentenceBonus(wc, sc) - FillerPenalty(nf) + StructureBonus(ns)

RawRelevance(ov, example) == 50 + OverlapBonus(ov) + (IF example THEN 15 ELSE 0)

\* the seven feedback rules, each the list it appends
ConfidenceFeedback(conf) ==
  IF conf < 60 THEN <<TipAssertive>>
  ELSE IF conf > 80 THEN <<PraiseConfidence>>
  ELSE <<>>
FillerFeedback(nf) == IF nf > 5 THEN <<TipFillers>> ELSE <<>>
SentenceFeedback(wc, sc) ==
  IF ~AvgAtMost(wc, sc, 25) THEN <<TipShorten>>
  ELSE IF ~AvgAtLeast(wc, sc, 10) THEN <<TipExpand>>
  ELSE <<>>
StructureFeedback(ns) == IF ns = 0 THEN <<TipTransitions>> ELSE <<>>
RelevanceFeedback(rel) == IF rel < 60 THEN <<TipRelevance>> ELSE <<>>
LengthFeedback(wc) ==
  IF wc < 50 THEN <<TipDetail>>
  ELSE IF wc > 200 THEN <<TipConcise>>
  ELSE <<>>
StarFeedback(star) == IF ~star THEN <<TipStar>> ELSE <<>>

\* WithDefault without the `if not feedback`
WithDefaultAlways(fb) == Append(fb, DefaultPraise)

\* if not feedback: feedback.append(default)
WithDefault(fb) == IF fb = <<>> THEN <<DefaultPraise>> ELSE fb

\* the local variables of analyze_text that are computed from its arguments
Locals(t, q) ==
  [word_count |-> word_count(t),
   sentence_count |-> sentence_count(t),
   confidence_count |-> confidence_count(t),
   hedging_count |-> hedging_count(t),
   fillers |-> fillers(t),
   structure_count |-> structure_count(t),
   overlap |-> overlap(t, q),
   example |-> HasExample(t),
   star |-> HasStar(t)]

\* clarity_score with neither the cap on the filler penalty nor the clamp
clarity_score_uncapped(l) ==
  50 + SentenceBonus(l.word_count, l.sentence_count) - l.fillers * 3
     + StructureBonus(l.structure_count)

\* the clamped scores, in tenths
confidence_score(l) ==
  Clamp(RawConfidence(l.confidence_count, l.hedging_count, l.word_count))
clarity_score(l) ==
  Clamp(RawClarity(l.word_count, l.sentence_count, l.fillers, l.structure_count))
relevance_score(l) == Clamp(RawRelevance(l.overlap, l.example))

\* Feedback with the filler rule moved in front of the confidence rule
FeedbackFillerFirst(l) ==
  WithDefault(FillerFeedback(l.fillers)
              \o ConfidenceFeedback(confidence_score(l))
              \o SentenceFeedback(l.word_count, l.sentence_count)
              \o StructureFeedback(l.structure_count)
              \o RelevanceFeedback(relevance_score(l))
              \o LengthFeedback(l.word_count)
              \o StarFeedback(l.star))

\* the feedback list, appended to in the order of the code
Feedback(l) ==
  WithDefault(ConfidenceFeedback(confidence_score(l))
              \o FillerFeedback(l.fillers)
              \o SentenceFeedback(l.word_count, l.sentence_count)
              \o StructureFeedback(l.structure_count)
              \o RelevanceFeedback(relevance_score(l))
              \o LengthFeedback(l.word_count)
              \o StarFeedback(l.star))

\* the dictionary analyze_text returns
Result(l) ==
  [confidence_score |-> confidence_score(l),
   clarity_score |-> clarity_score(l),
   relevance_score |-> relevance_score(l),
   word_count |-> l.word_count,
   sentence_count |-> l.sentence_count,
   feedback |-> Feedback(l)]

analyze_text(t, q) == Result(Locals(t, q))

(***************************************************************************)
(* The inputs of the model: transcripts and questions                      *)
(***************************************************************************)
\* the pieces short transcripts are put together from: filler, structure,
\* hedging, confident, example and STAR words in either case, a neutral word
\* with and without a full stop, bare punctuation and white space, and words
\* with the two non-ASCII letters
Pieces ==
  <<<<"u","m"," ">>,
    <<"u","h","l","i","k","e"," ">>,
    <<"f","i","r","s","t"," ">>,
    <<"M","a","y","b","e"," ">>,
    <<"d","e","f","i","n","i","t","e","l","y"," ">>,
    <<"s","i","t","u","a","t","i","o","n"," ">>,
    <<"g","o"," ">>,
    <<"g","o",".","\n">>,
    <<".">>,
    <<" ">>,
    <<"f","dotless_i","r","s","t"," ">>,
    <<"sharp_s"," ">>,
    <<"u","m"," ","u","m"," ","U","m"," ","u","m"," ","u","m"," ","u","m"," ">>>>

\* the number of pieces of a short transcript
MaxPieces == 2

\* the number of words of the longest body of a long transcript
MaxWords == 201

RECURSIVE PieceSeqs(_)
PieceSeqs(n) ==
  IF n = 0 THEN {<<>>}
  ELSE LET shorter == PieceSeqs(n - 1)
       IN shorter \cup {t \o Pieces[i] : t \in shorter, i \in DOMAIN Pieces}

ShortTranscripts == PieceSeqs(MaxPieces)

\* n times the word w, with a full stop after every per-th word (none when
\* per = 0)
Body(w, n, per) ==
  Flatten([k \in 1..n |-> IF per > 0 /\ k % per = 0
                          THEN w \o <<".", " ">> ELSE w \o <<" ">>], 1, n)

Heads ==
  {<<>>,
   <<"f","i","r","s","t"," ","s","i","t","u","a","t","i","o","n"," ">>,
   <<"f","i","r","s","t"," ","s","i","t","u","a","t","i","o","n"," ","t","a","s","k"," ","r","e","s","u","l","t"," ">>,
   <<"u","m"," ","u","m"," ","U","m"," ","u","m"," ","u","m"," ","u","m"," ">>,
   <<"m","a","y","b","e"," ","k","i","n","d"," ","o","f"," ">>,
   <<"d","e","f","i","n","i","t","e","l","y"," ","e","x","p","e","r","i","e","n","c","e","d"," ">>,
   <<"s","e","c","o","n","d"," ","t","h","i","r","d"," ","f","i","n","a","l","l","y"," ","a","d","d","i","t","i","o","n","a","l","l","y"," ","f","u","r","t","h","e","r","m","o","r","e"," ">>,
   <<"m","a","y","b","e"," ","p","e","r","h","a","p","s"," ","m","i","g","h","t"," ","p","o","s","s","i","b","l","y"," ","k","i","n","d"," ","o","f"," ","s","o","r","t"," ","o","f"," ">>,
   <<"c","o","n","f","i","d","e","n","t"," ","d","e","f","i","n","i","t","e","l","y"," ","c","e","r","t","a","i","n","l","y"," ","a","b","s","o","l","u","t","e","l","y"," ","e","x","p","e","r","i","e","n","c","e","d"," ">>}

Counts == {20, 29, 30, 49, 50, 150, 151, 200, MaxWords}

Periods == {0, 1, 12, 22}

LongTranscripts ==
  {h \o Body(<<"g", "o">>, n, per) : h \in Heads, n \in Counts, per \in Periods}
  \cup {Body(um, n, per) : n \in Counts, per \in {0, 12}}

Questions ==
  {<<>>,
   <<"g","o">>,
   <<"T","h","e"," ","s","i","t","u","a","t","i","o","n">>,
   <<"S","S">>,
   <<"g","o"," ","f","i","r","s","t"," ","t","a","s","k"," ","s","i","t","u","a","t","i","o","n"," ","r","e","s","u","l","t">>}

LongQuestions ==
  {<<>>,
   <<"g","o"," ","f","i","r","s","t"," ","t","a","s","k"," ","s","i","t","u","a","t","i","o","n"," ","r","e","s","u","l","t">>}

\* the (transcript, question) pairs the endpoints are called with
Inputs == (ShortTranscripts \X Questions) \cup (LongTranscripts \X LongQuestions)

\* what the speech recogniser may return for an upload
Heard == {<<>>} \cup PieceSeqs(1) \cup {h \o Body(<<"g", "o">>, 50, 12) : h \in Heads}

\* str(e) of an exception
ExceptionTexts == {"", "disk full"}

(***************************************************************************)
(* State                                                                   *)
(***************************************************************************)
\* None where a str is expected, None where a transcript is expected, {}
None == "None"
NoText == <<"None">>
EmptyDict == <<>>

VARIABLES
  pc,          \* where the request is: "idle", a step of analyze_audio, "returned"
  endpoint,    \* the endpoint serving the request
  transcript,  \* analyze_text's transcript argument / transcribe_audio's result
  question,    \* the question form field
  called,      \* analyze_text has been invoked by this request
  analysis,    \* what analyze_text returned
  response,    \* the response of the endpoint
  temp_path,   \* analyze_audio's local temp_path
  tmp,         \* the name of the file NamedTemporaryFile created
  files,       \* the files that exist in the temporary directory
  exc,         \* str(e) of the exception on its way to the except clause
  fault,       \* what went wrong while serving the request
  raised       \* an exception has left the endpoint

\* None where a dict is expected
NoneDict == [none |-> TRUE]

\* st.session_state of the front end, and where its script run is
VARIABLES
  audio_data,     \* the recorded samples, or None
  recording,      \* never written after its initialisation
  audio_path,     \* the file save_audio wrote, or None
  analysis_done,  \* an analysis has been stored
  result,         \* the stored analysis response, or None
  sample_rate,    \* the sample rate of audio_data
  duration,       \* the slider's value, in seconds
  step,           \* "ready" for a click, or the call a handler is blocked in
  clicked,        \* the button whose handler ran last
  notice,         \* the message that handler displayed last
  wavs            \* the files save_audio has left in the temporary directory

session == <<audio_data, recording, audio_path, analysis_done, result, sample_rate,
             duration, step, clicked, notice, wavs>>

SessionInit ==
  /\ audio_data = None
  /\ recording = FALSE
  /\ audio_path = None
  /\ analysis_done = FALSE
  /\ result = NoneDict
  /\ sample_rate = 44100
  /\ duration = 5
  /\ step = "ready"
  /\ clicked = None
  /\ notice = None
  /\ wavs = {}

vars == <<pc, endpoint, transcript, question, called, analysis, response,
          temp_path, tmp, files, exc, fault, raised>>

Init ==
  /\ pc = "idle"
  /\ endpoint = None
  /\ transcript = <<>>
  /\ question = <<>>
  /\ called = FALSE
  /\ analysis = EmptyDict
  /\ response = None
  /\ temp_path = None
  /\ tmp = None
  /\ files = {}
  /\ exc = None
  /\ fault = None
  /\ raised = FALSE
  /\ SessionInit

(***************************************************************************)
(* POST /analyze_text                                                      *)
(***************************************************************************)
analyze_text_endpoint(t, q) ==
  /\ pc = "idle"
  /\ LET a == analyze_text(t, q)
     IN /\ analysis' = a
        /\ response' = [success |-> TRUE, transcript |-> t, analysis |-> a, question |-> q]
  /\ endpoint' = "analyze_text"
  /\ transcript' = t
  /\ question' = q
  /\ called' = TRUE
  /\ pc' = "returned"
  /\ UNCHANGED <<temp_path, tmp, files, exc, fault, raised>>
  /\ UNCHANGED session

(***************************************************************************)
(* POST /analyze_audio                                                     *)
(***************************************************************************)
\* the failure responses of analyze_audio
Failure(error) ==
  [success |-> FALSE, error |-> error, transcript |-> <<>>, analysis |-> EmptyDict]

\* transcribe_audio: (transcript, error) for each way the recogniser ends
transcribe_audio(outcome) ==
  IF outcome.kind = "ok" THEN <<outcome.text, None>>
  ELSE IF outcome.kind = "UnknownValueError" THEN <<NoText, "Could not understand audio">>
  ELSE IF outcome.kind = "RequestError"
       THEN <<NoText, "Speech recognition error: " \o outcome.msg>>
  ELSE <<NoText, "Transcription error: " \o outcome.msg>>

Outcomes ==
  {[kind |-> "ok", text |-> t] : t \in Heard}
  \cup {[kind |-> "UnknownValueError"]}
  \cup {[kind |-> k, msg |-> m] : k \in {"RequestError", "Exception"}, m \in ExceptionTexts}

\* Python truth value of an optional str (error) and of an optional transcript
Truthy(x) == x # None /\ x # ""
TruthyText(t) == t # NoText /\ t # <<>>

\* temp_path = None, and the try block is entered
AudioBegin(q) ==
  /\ pc = "idle"
  /\ endpoint' = "analyze_audio"
  /\ question' = q
  /\ temp_path' = None
  /\ pc' = "create"
  /\ UNCHANGED <<transcript, called, analysis, response, tmp, files, exc, fault, raised>>
  /\ UNCHANGED session

\* tempfile.NamedTemporaryFile(delete=False, suffix=".wav")
CreateTemp ==
  /\ pc = "create"
  /\ \/ /\ tmp' = "tmp0.wav"
        /\ files' = files \cup {"tmp0.wav"}
        /\ pc' = "read"
        /\ UNCHANGED <<exc, fault>>
     \/ \E m \in ExceptionTexts :
          /\ exc' = m
          /\ fault' = "create"
          /\ pc' = "except"
          /\ UNCHANGED <<tmp, files>>
  /\ UNCHANGED <<endpoint, transcript, question, called, analysis, response, temp_path,
                 raised>>
  /\ UNCHANGED session

\* content = await audio.read(); an exception leaves the with block, which
\* closes the file and (delete=False) keeps it
ReadUpload ==
  /\ pc = "read"
  /\ \/ /\ pc' = "write"
        /\ UNCHANGED <<exc, fault>>
     \/ \E m \in ExceptionTexts :
          /\ exc' = m
          /\ fault' = "read"
          /\ pc' = "except"
  /\ UNCHANGED <<endpoint, transcript, question, called, analysis, response,
                 temp_path, tmp, files, raised>>
  /\ UNCHANGED session

\* tmp.write(content); temp_path = tmp.name
WriteTemp ==
  /\ pc = "write"
  /\ \/ /\ temp_path' = tmp
        /\ pc' = "transcribe"
        /\ UNCHANGED <<exc, fault>>
     \/ \E m \in ExceptionTexts :
          /\ exc' = m
          /\ fault' = "write"
          /\ pc' = "except"
          /\ UNCHANGED temp_path
  /\ UNCHANGED <<endpoint, transcript, question, called, analysis, response, tmp, files,
                 raised>>
  /\ UNCHANGED session

\* transcribe_audio(temp_path) and the rest of the try block
Transcribe ==
  /\ pc = "transcribe"
  /\ \E outcome \in Outcomes :
       LET r == transcribe_audio(outcome)
           text == r[1]
           error == r[2]
       IN IF Truthy(error)
          THEN /\ response' = Failure(error)
               /\ fault' = outcome.kind
               /\ UNCHANGED <<transcript, called, analysis>>
          ELSE IF ~TruthyText(text)
          THEN /\ response' = Failure("No speech detected in audio")
               /\ fault' = "no speech"
               /\ UNCHANGED <<transcript, called, analysis>>
          ELSE LET a == analyze_text(text, question)
               IN /\ analysis' = a
                  /\ called' = TRUE
                  /\ transcript' = text
                  /\ response' = [success |-> TRUE, transcript |-> text,
                                  analysis |-> a, question |-> question]
                  /\ UNCHANGED fault
  /\ pc' = "finally"
  /\ UNCHANGED <<endpoint, question, temp_path, tmp, files, exc, raised>>
  /\ UNCHANGED session

\* analyze_audio without its except clause: the exception leaves the endpoint
\* after the finally block
ExceptMissing ==
  /\ pc = "except"
  /\ raised' = TRUE
  /\ pc' = "finally"
  /\ UNCHANGED <<endpoint, transcript, question, called, analysis, response,
                 temp_path, tmp, files, exc, fault>>
  /\ UNCHANGED session

\* except Exception as e: the exception is caught and turned into a response
Except ==
  /\ pc = "except"
  /\ response' = Failure("Server error: " \o exc)
  /\ raised' = FALSE
  /\ pc' = "finally"
  /\ UNCHANGED <<endpoint, transcript, question, called, analysis,
                 temp_path, tmp, files, exc, fault>>
  /\ UNCHANGED session

\* finally: unlink temp_path if it is set and exists; a failing unlink is
\* swallowed; then the response is returned
Finally ==
  /\ pc = "finally"
  /\ IF temp_path # None /\ temp_path \in files
     THEN \/ files' = files \ {temp_path}
          \/ UNCHANGED files
     ELSE UNCHANGED files
  /\ pc' = "returned"
  /\ UNCHANGED <<endpoint, transcript, question, called, analysis, response,
                 temp_path, tmp, exc, fault, raised>>
  /\ UNCHANGED session

Next ==
  \/ \E in \in Inputs : analyze_text_endpoint(in[1], in[2])
  \/ \E q \in Questions : AudioBegin(q)
  \/ CreateTemp
  \/ ReadUpload
  \/ WriteTemp
  \/ Transcribe
  \/ Except
  \/ Finally

Spec == Init /\ [][Next]_vars

(***************************************************************************)
(* The front end: mock_analysis                                            *)
(***************************************************************************)
\* str.lower for text with digits and signs, which are their own lower case
LowerAny(s) ==
  <<>> \o [i \in 1..Len(s) |-> IF s[i] \in DOMAIN LowerChar THEN LowerChar[s[i]] ELSE s[i]]

mock_transcript ==
  <<"T","h","a","n","k"," ","y","o","u"," ","f","o","r"," ","t","h","e"," ",
    "q","u","e","s","t","i","o","n","."," ","I"," ","a","m"," ","a"," ","s",
    "o","f","t","w","a","r","e"," ","d","e","v","e","l","o","p","e","r"," ",
    "w","i","t","h"," ","5"," ","y","e","a","r","s"," ","o","f"," ","e","x",
    "p","e","r","i","e","n","c","e"," ","i","n"," ","P","y","t","h","o","n",
    " ","a","n","d"," ","w","e","b"," ","d","e","v","e","l","o","p","m","e",
    "n","t","."," ","I"," ","h","a","v","e"," ","w","o","r","k","e","d"," ",
    "o","n"," ","m","u","l","t","i","p","l","e"," ","p","r","o","j","e","c",
    "t","s"," ","i","n","v","o","l","v","i","n","g"," ","m","a","c","h","i",
    "n","e"," ","l","e","a","r","n","i","n","g"," ","a","n","d"," ","d","a",
    "t","a"," ","a","n","a","l","y","s","i","s","."," ","I","n"," ","m","y",
    " ","p","r","e","v","i","o","u","s"," ","r","o","l","e",","," ","I"," ",
    "l","e","d"," ","a"," ","t","e","a","m"," ","t","o"," ","d","e","v","e",
    "l","o","p"," ","a"," ","c","u","s","t","o","m","e","r"," ","a","n","a",
    "l","y","t","i","c","s"," ","p","l","a","t","f","o","r","m"," ","t","h",
    "a","t"," ","i","m","p","r","o","v","e","d"," ","b","u","s","i","n","e",
    "s","s"," ","i","n","s","i","g","h","t","s"," ","b","y"," ","4","0","%",
    "."," ","I"," ","a","m"," ","p","a","s","s","i","o","n","a","t","e"," ",
    "a","b","o","u","t"," ","s","o","l","v","i","n","g"," ","c","o","m","p",
    "l","e","x"," ","p","r","o","b","l","e","m","s"," ","a","n","d"," ","d",
    "e","l","i","v","e","r","i","n","g"," ","h","i","g","h","-","q","u","a",
    "l","i","t","y"," ","s","o","l","u","t","i","o","n","s","."," ","I"," ",
    "b","e","l","i","e","v","e"," ","m","y"," ","s","k","i","l","l","s"," ",
    "a","l","i","g","n"," ","w","e","l","l"," ","w","i","t","h"," ","t","h",
    "i","s"," ","p","o","s","i","t","i","o","n",".">>

MockTipDetail == "Try to provide more detailed responses (aim for 50-150 words)"
MockTipConcise == "Consider being more concise in your answers"
MockGoodLength == "Good response length!"
MockGoodStructure == "Good structure and delivery"
MockTipStar == "Consider using the STAR method (Situation, Task, Action, Result)"
MockTipTone == "Practice maintaining confident tone throughout"

\* round(num / den, 1), in tenths
RoundTenths(num, den) == (20 * num + den) \div (2 * den)

\* the dictionary mock_analysis returns, its scores in tenths; the messages
\* are written without their leading pictograph
mock_analysis(t, q) ==
  LET wc == Len(Split(t))
  IN [confidence_score |-> Min(100, Max(50, RoundTenths(wc, 15))),
      clarity_score |-> Min(100, 70 + (IF Len(SplitOn(t, ".")) > 2 THEN 10 ELSE 0)),
      relevance_score |->
        Min(100, 60 + (IF \E w \in Range(Split(Lower(q))) : Contains(LowerAny(t), w)
                       THEN 20 ELSE 0)),
      word_count |-> wc,
      feedback |->
        <<IF wc < 30 THEN MockTipDetail
          ELSE IF wc > 200 THEN MockTipConcise
          ELSE MockGoodLength,
          MockGoodStructure, MockTipStar, MockTipTone>>]

(***************************************************************************)
(* The front end: the handlers of the five buttons                         *)
(***************************************************************************)
\* the number of files the temporary directory has room for
MaxRecordings == 2

\* values of the duration slider: its least and its greatest
Durations == {5, 60}

\* values of the question box: the default, nothing, and one that shares no
\* word with the mock transcript
QuestionBox ==
  {<<"T","e","l","l"," ","m","e"," ","a","b","o","u","t"," ","y","o","u","r","s",
  "e","l","f">>,
   <<>>,
   <<"g","o"," ","f","i","r","s","t">>}

\* the array record_audio returns for a duration
Samples(d) == ToString(d * 44100) \o " int16 frames"

\* the name NamedTemporaryFile gives the next file
NextWav == "tmp" \o ToString(Cardinality(wavs) + 1) \o ".wav"

\* the bodies of the backend's 200 responses to a recording and a question
Replies(q) ==
  {[success |-> TRUE, transcript |-> t, analysis |-> analyze_text(t, q), question |-> q] :
     t \in PieceSeqs(1) \ {<<>>}}
  \cup {Failure(e) : e \in {"No speech detected in audio", "Could not understand audio",
                            "Server error: disk full"}}

\* the four assignments that open Start Recording and make up Clear Recording
\* and Try Another Question
ResetSession ==
  /\ audio_data' = None
  /\ audio_path' = None
  /\ analysis_done' = FALSE
  /\ result' = NoneDict

\* Start Recording is clicked: the session is reset and record_audio begins
StartRecording(d) ==
  /\ step = "ready"
  /\ clicked' = "Start Recording"
  /\ duration' = d
  /\ ResetSession
  /\ notice' = "Recording"
  /\ step' = "record_audio"
  /\ UNCHANGED <<recording, sample_rate, wavs>>
  /\ UNCHANGED vars

\* record_audio returns: the samples, or (None, None) after an exception, and
\* then the handler is over
RecordAudio ==
  /\ step = "record_audio"
  /\ \/ /\ audio_data' = Samples(duration)
        /\ sample_rate' = 44100
        /\ step' = "save_audio"
        /\ UNCHANGED notice
     \/ /\ notice' = "Recording error"
        /\ step' = "ready"
        /\ UNCHANGED <<audio_data, sample_rate>>
  /\ UNCHANGED <<recording, audio_path, analysis_done, result, duration, clicked, wavs>>
  /\ UNCHANGED vars

\* save_audio returns: the name of the file it wrote, or None after an
\* exception, raised before the file exists or after
SaveAudio ==
  /\ step = "save_audio"
  /\ \/ /\ Cardinality(wavs) < MaxRecordings
        /\ \/ /\ audio_path' = NextWav
              /\ notice' = "Audio saved successfully!"
           \/ /\ notice' = "Error saving audio"
              /\ UNCHANGED audio_path
        /\ wavs' = wavs \cup {NextWav}
     \/ /\ notice' = "Error saving audio"
        /\ UNCHANGED <<audio_path, wavs>>
  /\ step' = "ready"
  /\ UNCHANGED <<audio_data, recording, analysis_done, result, sample_rate, duration,
                 clicked>>
  /\ UNCHANGED vars

\* Play Recording: the file is read and played, or cannot be read, or there
\* is none
PlayRecording ==
  /\ step = "ready"
  /\ clicked' = "Play Recording"
  /\ IF Truthy(audio_path)
     THEN notice' \in {"audio", "Error playing audio"}
     ELSE notice' = "No recording available. Record first!"
  /\ UNCHANGED <<audio_data, recording, audio_path, analysis_done, result, sample_rate,
                 duration, step, wavs>>
  /\ UNCHANGED vars

\* ClearRecording without the assignment to analysis_done
ClearRecordingKeepsDone ==
  /\ step = "ready"
  /\ clicked' = "Clear Recording"
  /\ audio_data' = None
  /\ audio_path' = None
  /\ result' = NoneDict
  /\ notice' = "Recording cleared"
  /\ UNCHANGED <<analysis_done, recording, sample_rate, duration, step, wavs>>
  /\ UNCHANGED vars

ClearRecording ==
  /\ step = "ready"
  /\ clicked' = "Clear Recording"
  /\ ResetSession
  /\ notice' = "Recording cleared"
  /\ UNCHANGED <<recording, sample_rate, duration, step, wavs>>
  /\ UNCHANGED vars

\* can_analyze: the Analyze button is disabled without it
can_analyze == Truthy(audio_path) /\ ~analysis_done

\* Analyze Interview is clicked: the spinner is shown
AnalyzeInterview ==
  /\ step = "ready"
  /\ can_analyze
  /\ clicked' = "Analyze Interview"
  /\ notice' = "Analyzing your response..."
  /\ step' = "analyze"
  /\ UNCHANGED <<audio_data, recording, audio_path, analysis_done, result, sample_rate,
                 duration, wavs>>
  /\ UNCHANGED vars

\* use_mock is ticked: the mock analysis of the mock transcript is stored
AnalyzeMock(q) ==
  /\ step = "analyze"
  /\ result' = [success |-> TRUE, transcript |-> mock_transcript,
                analysis |-> mock_analysis(mock_transcript, q), question |-> q]
  /\ analysis_done' = TRUE
  /\ step' = "ready"
  /\ UNCHANGED <<audio_data, recording, audio_path, sample_rate, duration, clicked,
                 notice, wavs>>
  /\ UNCHANGED vars

\* use_mock is not ticked: the recording is posted to /analyze_audio; a 200
\* response is stored, any other status and every exception is displayed
AnalyzeBackend(q) ==
  /\ step = "analyze"
  /\ \/ \E r \in Replies(q) :
          /\ result' = r
          /\ analysis_done' = TRUE
          /\ UNCHANGED notice
     \/ /\ notice' \in {"Backend error", "Cannot connect to backend", "Error"}
        /\ UNCHANGED <<result, analysis_done>>
  /\ step' = "ready"
  /\ UNCHANGED <<audio_data, recording, audio_path, sample_rate, duration, clicked, wavs>>
  /\ UNCHANGED vars

\* the results are displayed, the Try Another Question button with them
ShowsResults ==
  /\ analysis_done
  /\ result # NoneDict
  /\ result.analysis # EmptyDict

TryAnotherQuestion ==
  /\ step = "ready"
  /\ ShowsResults
  /\ clicked' = "Try Another Question"
  /\ ResetSession
  /\ UNCHANGED <<recording, sample_rate, duration, step, notice, wavs>>
  /\ UNCHANGED vars

SessionNext ==
  \/ \E d \in Durations : StartRecording(d)
  \/ RecordAudio
  \/ SaveAudio
  \/ PlayRecording
  \/ ClearRecording
  \/ AnalyzeInterview
  \/ \E q \in QuestionBox : AnalyzeMock(q)
  \/ \E q \in QuestionBox : AnalyzeBackend(q)
  \/ TryAnotherQuestion

SessionSpec == Init /\ [][SessionNext]_session

(***************************************************************************)
(* Properties                                                              *)
(***************************************************************************)
Scores(a) == <<a.confidence_score, a.clarity_score, a.relevance_score>>

Messages(fb) == Range(fb)

\* C1: the three scores analyze_text returns lie in [0, 10] (0..100 tenths).
C1_ScoresInRange ==
  called => \A i \in 1..3 : 0 <= Scores(analysis)[i] /\ Scores(analysis)[i] <= 100

\* a transcript whose filler penalty is at its cap: 29 fillers, clarity 2.0
C1_Witness ==
  called /\ fillers(transcript) >= 29 /\ analysis.clarity_score = 20

\* one of the seven feedback rules fires on the request's inputs
RuleFired ==
  \/ analysis.confidence_score < 60
  \/ analysis.confidence_score > 80
  \/ fillers(transcript) > 5
  \/ analysis.word_count > 25 * Max(analysis.sentence_count, 1)
  \/ analysis.word_count < 10 * Max(analysis.sentence_count, 1)
  \/ structure_count(transcript) = 0
  \/ analysis.relevance_score < 60
  \/ analysis.word_count < 50
  \/ analysis.word_count > 200
  \/ ~HasStar(transcript)

\* C2: the feedback list is never empty; the default praise is in it exactly
\* when none of the seven rules fired, and is then its only element.
C2_DefaultPraise ==
  called =>
    /\ Len(analysis.feedback) > 0
    /\ (DefaultPraise \in Messages(analysis.feedback)) <=> ~RuleFired
    /\ (DefaultPraise \in Messages(analysis.feedback)) =>
         analysis.feedback = <<DefaultPraise>>

C2_Witness == called /\ analysis.feedback = <<DefaultPraise>>

NoWords(s) == \A i \in 1..Len(s) : IsSpace(s[i])

\* C3 as stated: a transcript without words scores the baseline 5.0 three
\* times.
C3_AllBaseline ==
  called /\ NoWords(transcript) => Scores(analysis) = <<50, 50, 50>>

\* C3 amended: a transcript without words gets word_count 0, sentence_count
\* 0, a non-empty feedback list, clarity 5.0 and relevance 5.0, and
\* confidence 4.0: the short-answer penalty (word_count < 30) applies.
C3_Amended ==
  called /\ NoWords(transcript) =>
    /\ Scores(analysis) = <<40, 50, 50>>
    /\ analysis.word_count = 0
    /\ analysis.sentence_count = 0
    /\ Len(analysis.feedback) > 0

C3_Witness == called /\ NoWords(transcript) /\ Len(transcript) > 0

NoneOf(ws, text) == \A i \in DOMAIN ws : ~Contains(text, ws[i])

PlainMidLength ==
  /\ 50 <= analysis.word_count /\ analysis.word_count <= 150
  /\ NoneOf(hedging_words, Lower(transcript))
  /\ NoneOf(confident_words, Lower(transcript))

\* C4: 50 to 150 words and no hedging or confident word give confidence 7.0,
\* whatever the question.
C4_MidLengthConfidence ==
  called /\ PlainMidLength => analysis.confidence_score = 70

C4_Witness ==
  called /\ PlainMidLength /\ analysis.word_count = 150 /\ question # <<>>

\* the filler-free transcripts the transcript with six "um" is compared with:
\* sentence-length bonus, structure_count and clarity score of each
FillerFree ==
  {t \in PieceSeqs(2) \cup {h \o Body(<<"g", "o">>, n, 12) : h \in Heads, n \in {12, 50}} :
     fillers(t) = 0}

Baselines ==
  {[bonus |-> SentenceBonus(word_count(t), sentence_count(t)),
    structure_count |-> structure_count(t),
    clarity_score |-> analyze_text(t, <<>>).clarity_score] : t \in FillerFree}

SixUm ==
  /\ Count(Lower(transcript), um) = 6
  /\ Count(Lower(transcript), uh) = 0
  /\ Count(Lower(transcript), like) = 0

SameShape(b) ==
  /\ b.bonus = SentenceBonus(analysis.word_count, analysis.sentence_count)
  /\ b.structure_count = structure_count(transcript)

\* C5: six "um" and no other filler give the filler tip and a clarity score
\* 1.8 below that of every filler-free transcript with the same
\* sentence-length bonus and the same structure_count.
C5_SixFillers ==
  called /\ SixUm =>
    /\ TipFillers \in Messages(analysis.feedback)
    /\ \A b \in Baselines : SameShape(b) => b.clarity_score - analysis.clarity_score = 18

C5_Witness ==
  called /\ SixUm /\ \E b \in Baselines : SameShape(b) /\ b.structure_count > 0

\* C6 as stated: the scores are the same for the inputs in upper case.
C6_CaseInvariant ==
  called => Scores(analysis) = Scores(analyze_text(Upper(transcript), Upper(question)))

IsAscii(s) == \A i \in 1..Len(s) : s[i] \in AsciiChars

\* C6 amended: for ASCII transcripts and questions the scores are the same
\* for the inputs in upper case.
C6_AsciiCaseInvariant ==
  called /\ IsAscii(transcript) /\ IsAscii(question) =>
    Scores(analysis) = Scores(analyze_text(Upper(transcript), Upper(question)))

\* ASCII inputs in mixed case whose scores rest on lower-cased matches
C6_Witness ==
  /\ called /\ IsAscii(transcript) /\ IsAscii(question)
  /\ Upper(transcript) # transcript /\ Upper(question) # question
  /\ Lower(transcript) # transcript /\ Lower(question) # question
  /\ analysis.relevance_score > 60
  /\ analysis.confidence_score = 35

\* the tokens of s, counted by their last characters
TokenCount(s) ==
  Cardinality({i \in 1..Len(s) : ~IsSpace(s[i]) /\ (i = Len(s) \/ IsSpace(s[i+1]))})

\* the non-empty segments between full stops, counted by their first
\* characters
NonEmptySegments(s) ==
  Cardinality({i \in 1..Len(s) : s[i] # "." /\ (i = 1 \/ s[i-1] = ".")})

\* the segments between full stops that hold a character other than white
\* space, counted by the first such character of each
NonBlankSegments(s) ==
  Cardinality({i \in 1..Len(s) :
                 /\ s[i] # "." /\ ~IsSpace(s[i])
                 /\ \E k \in 0..(i-1) :
                      /\ k = 0 \/ s[k] = "."
                      /\ \A j \in (k+1)..(i-1) : IsSpace(s[j])})

\* C7 as stated: word_count is the number of white-space-delimited tokens and
\* sentence_count the number of non-empty segments between full stops.
C7_Counts ==
  called =>
    /\ analysis.word_count = TokenCount(transcript)
    /\ analysis.sentence_count = NonEmptySegments(transcript)

\* C7 amended: word_count is the number of white-space-delimited tokens and
\* sentence_count the number of segments between full stops that hold a
\* character other than white space; the empty transcript gives 0 and 0.
C7_Amended ==
  called =>
    /\ analysis.word_count = TokenCount(transcript)
    /\ analysis.sentence_count = NonBlankSegments(transcript)
    /\ transcript = <<>> => analysis.word_count = 0 /\ analysis.sentence_count = 0

\* a transcript with a segment of white space only, and with fewer sentences
\* than non-empty segments
C7_Witness ==
  /\ called
  /\ analysis.sentence_count > 0
  /\ analysis.sentence_count < NonEmptySegments(transcript)

AudioReturned == pc = "returned" /\ endpoint = "analyze_audio"

\* C8: every failure of analyze_audio ends in a response with success False,
\* a non-empty error message, an empty transcript and an empty analysis;
\* analyze_text has not been invoked, and no exception leaves the endpoint.
C8_FailuresSurfaced ==
  AudioReturned =>
    /\ ~raised
    /\ fault # None =>
         /\ response.success = FALSE
         /\ Len(response.error) > 0
         /\ response.transcript = <<>>
         /\ response.analysis = EmptyDict
         /\ ~called

\* a recogniser error with an empty str(e), surfaced with the endpoint's prefix
C8_Witness ==
  /\ AudioReturned
  /\ fault = "RequestError"
  /\ response.error = "Speech recognition error: "

FeedbackOrder ==
  <<TipAssertive, PraiseConfidence, TipFillers, TipShorten, TipExpand, TipTransitions,
    TipRelevance, TipDetail, TipConcise, TipStar, DefaultPraise>>

Alternatives ==
  {{TipAssertive, PraiseConfidence}, {TipShorten, TipExpand}, {TipDetail, TipConcise}}

Rank(m) == CHOOSE i \in DOMAIN FeedbackOrder : FeedbackOrder[i] = m

\* C9: the feedback list is a subsequence of the fixed order: only its
\* messages, in strictly increasing rank (so none twice), and never both
\* alternatives of an if/elif pair.
C9_FeedbackOrder ==
  called =>
    LET fb == analysis.feedback
    IN /\ \A i \in DOMAIN fb : fb[i] \in Range(FeedbackOrder)
       /\ \A i, j \in DOMAIN fb : i < j => Rank(fb[i]) < Rank(fb[j])
       /\ \A pair \in Alternatives : ~(pair \subseteq Messages(fb))

\* all seven rules fire
C9_Witness == called /\ Len(analysis.feedback) = 7

\* the three scores before the clamps, in tenths
RawScores(l) ==
  <<RawConfidence(l.confidence_count, l.hedging_count, l.word_count),
    RawClarity(l.word_count, l.sentence_count, l.fillers, l.structure_count),
    RawRelevance(l.overlap, l.example)>>

\* the least and the greatest value of each score before its clamp, in tenths
RawBounds == <<<<10, 95>>, <<20, 90>>, <<50, 95>>>>

\* the scores before the clamps of the long transcripts
LongRawScores ==
  {RawScores(Locals(t, q)) : t \in LongTranscripts, q \in LongQuestions}

Attained(i, v) == \E r \in LongRawScores : r[i] = v

\* C11: before the clamps the confidence score is within [1.0, 9.5], the
\* clarity score within [2.0, 9.0] and the relevance score within [5.0, 9.5],
\* so that the clamps change no value; each of the six bounds is the score of
\* some input.
C11_ClampsIdle ==
  /\ called =>
       LET raw == RawScores(Locals(transcript, question))
       IN \A i \in 1..3 :
            /\ RawBounds[i][1] <= raw[i] /\ raw[i] <= RawBounds[i][2]
            /\ Clamp(raw[i]) = raw[i]
            /\ Scores(analysis)[i] = raw[i]
  /\ \A i \in 1..3 : Attained(i, RawBounds[i][1]) /\ Attained(i, RawBounds[i][2])

\* all six hedging words in a short answer: confidence 1.0 before and after
\* the clamp
C11_Witness ==
  /\ called
  /\ hedging_count(transcript) = 6
  /\ RawScores(Locals(transcript, question))[1] = 10
  /\ analysis.confidence_score = 10

\* C10: when analyze_audio returns, the temporary file it created is gone.
C10_TempFileDeleted ==
  AudioReturned /\ tmp # None => tmp \notin files

\* the session holds no recording and no analysis
SessionIsReset ==
  /\ audio_data = None
  /\ audio_path = None
  /\ result = NoneDict
  /\ analysis_done = FALSE

Resetting == {"Start Recording", "Clear Recording", "Try Another Question"}

\* the step is the click of the button b
Click(b) == step = "ready" /\ clicked' = b

====
